---- MODULE Spec2Model ----
(***************************************************************************)
(* Image-To-Video-YT: the image-to-video pipeline of 001.py (thread pool,  *)
(* as_completed, 60 second budget, separate audio step) and of             *)
(* YT-Creator.py (sequential loop, audio bound before the encode).         *)
(*                                                                         *)
(* Spec      : the job pipeline of both programs, one job after another.   *)
(* SpecFrame : process_image alone, over source and target sizes.          *)
(***************************************************************************)
EXTENDS Integers, Sequences, FiniteSets

\* ---------------------------------------------------------------- bounds
\* Largest number of image files in one job of 001.py (thread pool).
MaxImages == 3
\* Largest number of image files in one job of YT-Creator.py (sequential).
MaxImagesSeq == 7
\* A time_per_image above main's 5 s, handed to 001's generate_video.
LongTimePerImage == 40
\* Duration in seconds of the audio files the user can pick.
ShortAudio == 8
LongAudio == 100
\* Side lengths (pixels) of small source images, 1..MaxSmallSide.
MaxSmallSide == 3

\* ------------------------------------------------------ program constants
max_duration == 60
fade_duration == 1
DefaultTimePerImage == 5
SliderMin == 1
SliderMax == 10
WideSide == 1920
NarrowSide == 1080

\* Positions of YT-Creator's duration slider (line 151) the jobs are run at.
SliderStops == {SliderMin, DefaultTimePerImage, SliderMax}

Programs == {"001", "YT"}

VARIABLES
    prog,            \* which program runs: "001" or "YT"
    pc,              \* position of the job: idle, loop, write, audio
    nimages,         \* len(images) / len(image_files) of the current job
    is_shorts,       \* the Shorts radio button
    time_per_image,  \* generate_video's time_per_image
    audio_file,      \* duration of the chosen audio file, 0 when none is chosen
    fut,             \* per image: pending, running, finished, yielded
    decoded,         \* per image: process_image's result, unknown/frame/none
    video_clips,     \* generate_video's video_clips, as image indices
    total_duration,  \* generate_video's total_duration
    rejected,        \* image whose clip hit the cap (the break), 0 when none
    outcome,         \* how generate_video ended in this job
    encoded,         \* files write_videofile produced in this job
    out_video,       \* output_video.mp4 (001) / the output file (YT) on disk
    out_with_audio,  \* output_video_with_audio.mp4 (001) on disk
    frame_src,       \* SpecFrame: <<img_width, img_height, video_width, video_height>>
    frame_called,    \* SpecFrame: process_image has returned for frame_src
    frame_ret        \* SpecFrame: what process_image returned

pipeVars == <<prog, pc, nimages, is_shorts, time_per_image, audio_file, fut,
              decoded, video_clips, total_duration, rejected, outcome,
              encoded, out_video, out_with_audio>>
frameVars == <<frame_src, frame_called, frame_ret>>
vars == <<pipeVars, frameVars>>

\* ------------------------------------------------------------ process_image
RECURSIVE Gcd(_, _)
Gcd(a, b) == IF b = 0 THEN a ELSE Gcd(b, a % b)

IsPow2(n) == \E k \in 0..12 : n = 2 ^ k

\* video_height, video_width of generate_video, as <<width, height>>.
VideoSize(shorts) ==
    IF shorts THEN <<NarrowSide, WideSide>> ELSE <<WideSide, NarrowSide>>

\* scale = min(video_width / img_width, video_height / img_height), kept as
\* the fraction <<numerator, denominator>> the float division rounds.
Scale(iw, ih, W, H) == IF W * ih <= H * iw THEN <<W, iw>> ELSE <<H, ih>>

\* int(dim * scale) in IEEE-754 doubles.  The quotient num/den is exact when
\* den/gcd is a power of two; otherwise it is rounded, and a product whose
\* real value is the integer q comes out as q or just below it, which int()
\* truncates to q - 1.
ScaledSize(dim, sc) ==
    LET num == sc[1]
        den == sc[2]
        q   == (dim * num) \div den
    IN  IF IsPow2(den \div Gcd(num, den)) \/ (dim * num) % den # 0
        THEN {q}
        ELSE {q - 1, q}

None == [none |-> TRUE, width |-> 0, height |-> 0, new_width |-> 0,
         new_height |-> 0, x_offset |-> 0, y_offset |-> 0]

\* Lines 28-34: cv2.resize to a size with a zero side raises, the except
\* clause returns None; otherwise the foreground is pasted at the centre.
Paste(nw, nh, W, H) ==
    IF nw < 1 \/ nh < 1
    THEN None
    ELSE [none |-> FALSE, width |-> W, height |-> H,
          new_width |-> nw, new_height |-> nh,
          x_offset |-> (W - nw) \div 2, y_offset |-> (H - nh) \div 2]

\* An image file: unreadable (cv2.imread returns None) or a decoded size.
Unreadable == [ok |-> FALSE, w |-> 0, h |-> 0]
Image(w, h) == [ok |-> TRUE, w |-> w, h |-> h]

\* The set of values process_image can return for one file.
process_image(img, W, H) ==
    IF ~img.ok
    THEN {None}
    ELSE LET sc == Scale(img.w, img.h, W, H)
         IN  {Paste(nw, nh, W, H) :
                  nw \in ScaledSize(img.w, sc), nh \in ScaledSize(img.h, sc)}

\* The image files a job's folder holds.
JobImages == {Unreadable, Image(800, 600)}

\* ---------------------------------------------------------------- helpers
NoFile == [exists |-> FALSE, duration |-> 0, audio |-> 0]
MediaFile(d, a) == [exists |-> TRUE, duration |-> d, audio |-> a]

\* Faulty variant of subclip: the track is not cut at t_end.
subclip_untrimmed(t_start, t_end) == audio_file - t_start

\* clip.subclip(t_start, t_end).duration
subclip(t_start, t_end) == t_end - t_start

\* concatenate_videoclips(video_clips).duration: every clip has
\* set_duration(time_per_image).
ConcatDuration(clips, tpi) == Len(clips) * tpi

\* 001.py line 67
CapAllows(total, tpi) == total + tpi <= max_duration

\* Faulty variant of the empty check: any skipped image fails the job.
NoValidClips_any_skipped(clips) == Len(clips) < nimages

\* 001.py line 74: if not video_clips
NoValidClips(clips) == clips = <<>>

\* Faulty variant of the pool exit: shutdown(wait=False).
PoolJoined_no_wait == TRUE

\* Leaving the with-block of 001.py line 59 joins every worker.
PoolJoined == \A i \in 1..nimages : fut[i] # "running"

Images == 1..nimages

\* --------------------------------------------------------------------- Init
Init ==
    /\ prog \in Programs
    /\ pc = "idle"
    /\ nimages = 0
    /\ is_shorts = FALSE
    /\ time_per_image = DefaultTimePerImage
    /\ audio_file = 0
    /\ fut = <<>>
    /\ decoded = <<>>
    /\ video_clips = <<>>
    /\ total_duration = 0
    /\ rejected = 0
    /\ outcome = "none"
    /\ encoded = {}
    /\ out_video = NoFile
    /\ out_with_audio = NoFile
    /\ frame_src = <<1, 1, WideSide, NarrowSide>>
    /\ frame_called = FALSE
    /\ frame_ret = None

\* ------------------------------------------------------------------- 001.py
\* main, "Create Video": generate_video up to the submission of the tasks.
\* An empty folder returns at line 46 and main goes on to the audio step.
\* time_per_image is generate_video's parameter: main passes 5, and
\* LongTimePerImage is a caller's larger value, with which the 60 s budget
\* is met within MaxImages images (at 5 s it takes 13).  Every task runs at
\* once: ThreadPoolExecutor() has at least 5 workers.  The folders of
\* successive jobs lie in one parent directory, so the jobs share
\* output_video.mp4 and output_video_with_audio.mp4.
CreateVideo ==
    /\ prog = "001"
    /\ pc = "idle"
    /\ \E n \in 0..MaxImages, s \in BOOLEAN,
          t \in {DefaultTimePerImage, LongTimePerImage},
          a \in {0, ShortAudio, LongAudio} :
        /\ nimages' = n
        /\ is_shorts' = s
        /\ time_per_image' = t
        /\ audio_file' = a
        /\ fut' = [i \in 1..n |-> "running"]
        /\ decoded' = [i \in 1..n |-> "unknown"]
        /\ pc' = IF n = 0 THEN "audio" ELSE "loop"
        /\ outcome' = IF n = 0 THEN "noimages" ELSE "none"
    /\ video_clips' = <<>>
    /\ total_duration' = 0
    /\ rejected' = 0
    /\ encoded' = {}
    /\ UNCHANGED <<prog, out_video, out_with_audio, frameVars>>

\* A pool worker returns from process_image(img_path, ...).
WorkerFinish(i) ==
    /\ prog = "001"
    /\ pc \in {"loop", "write"}
    /\ i \in Images
    /\ fut[i] = "running"
    /\ \E img \in JobImages :
       \E r \in process_image(img, VideoSize(is_shorts)[1], VideoSize(is_shorts)[2]) :
           decoded' = [decoded EXCEPT ![i] = IF r = None THEN "none" ELSE "frame"]
    /\ fut' = [fut EXCEPT ![i] = "finished"]
    /\ UNCHANGED <<prog, pc, nimages, is_shorts, time_per_image, audio_file,
                   video_clips, total_duration, rejected, outcome, encoded,
                   out_video, out_with_audio, frameVars>>

\* One iteration of "for future in as_completed(futures)", lines 62-72.
AsCompleted(i) ==
    /\ prog = "001"
    /\ pc = "loop"
    /\ i \in Images
    /\ fut[i] = "finished"
    /\ fut' = [fut EXCEPT ![i] = "yielded"]
    /\ IF decoded[i] = "frame"
       THEN IF CapAllows(total_duration, time_per_image)
            THEN /\ video_clips' = Append(video_clips, i)
                 /\ total_duration' = total_duration + time_per_image
                 /\ rejected' = rejected
                 /\ pc' = IF \A j \in Images : fut'[j] = "yielded"
                          THEN "write" ELSE "loop"
            ELSE /\ rejected' = i
                 /\ pc' = "write"
                 /\ UNCHANGED <<video_clips, total_duration>>
       ELSE /\ pc' = IF \A j \in Images : fut'[j] = "yielded"
                     THEN "write" ELSE "loop"
            /\ UNCHANGED <<video_clips, total_duration, rejected>>
    /\ UNCHANGED <<prog, nimages, is_shorts, time_per_image, audio_file,
                   decoded, outcome, encoded, out_video, out_with_audio,
                   frameVars>>

\* Leaving the with-block, then lines 74-80: the empty check, the
\* concatenation and write_videofile.
WriteVideo ==
    /\ prog = "001"
    /\ pc = "write"
    /\ PoolJoined
    /\ IF NoValidClips(video_clips)
       THEN /\ outcome' = "empty"
            /\ UNCHANGED <<encoded, out_video>>
       ELSE /\ outcome' = "saved"
            /\ encoded' = encoded \cup {"video"}
            /\ out_video' = MediaFile(ConcatDuration(video_clips, time_per_image), 0)
    /\ pc' = "audio"
    /\ UNCHANGED <<prog, nimages, is_shorts, time_per_image, audio_file, fut,
                   decoded, video_clips, total_duration, rejected,
                   out_with_audio, frameVars>>

\* main line 120: add_audio_to_video(output_video_file, audio_file, ...).
\* VideoFileClip raises when output_video.mp4 is missing, AudioFileClip when
\* no audio file was chosen; the except clause logs and returns.
add_audio_to_video ==
    /\ prog = "001"
    /\ pc = "audio"
    /\ IF out_video.exists /\ audio_file # 0
       THEN /\ out_with_audio' =
                   MediaFile(out_video.duration, subclip(0, out_video.duration))
            /\ encoded' = encoded \cup {"with_audio"}
       ELSE UNCHANGED <<out_with_audio, encoded>>
    /\ pc' = "idle"
    /\ UNCHANGED <<prog, nimages, is_shorts, time_per_image, audio_file, fut,
                   decoded, video_clips, total_duration, rejected, outcome,
                   out_video, frameVars>>

\* ------------------------------------------------------------ YT-Creator.py
\* start_video_generation: needs images (and an output file), then starts
\* generate_video with the slider's duration and fade_duration 1.  A job is
\* started here once the previous one has ended.
StartVideoGeneration ==
    /\ prog = "YT"
    /\ pc = "idle"
    /\ \E n \in 1..MaxImagesSeq, s \in BOOLEAN,
          t \in SliderStops,
          a \in {0, ShortAudio, LongAudio} :
        /\ nimages' = n
        /\ is_shorts' = s
        /\ time_per_image' = t
        /\ audio_file' = a
        /\ fut' = [i \in 1..n |-> "pending"]
        /\ decoded' = [i \in 1..n |-> "unknown"]
    /\ pc' = "loop"
    /\ outcome' = "none"
    /\ video_clips' = <<>>
    /\ total_duration' = 0
    /\ rejected' = 0
    /\ encoded' = {}
    /\ UNCHANGED <<prog, out_video, out_with_audio, frameVars>>

\* One iteration of "for i, image_path in enumerate(image_files)", 49-56.
ProcessNext ==
    /\ prog = "YT"
    /\ pc = "loop"
    /\ \E i \in Images :
        /\ fut[i] = "pending"
        /\ \A j \in 1..(i - 1) : fut[j] = "yielded"
        /\ fut' = [fut EXCEPT ![i] = "yielded"]
        /\ \E img \in JobImages :
           \E r \in process_image(img, VideoSize(is_shorts)[1], VideoSize(is_shorts)[2]) :
              IF r = None
              THEN /\ decoded' = [decoded EXCEPT ![i] = "none"]
                   /\ UNCHANGED video_clips
              ELSE /\ decoded' = [decoded EXCEPT ![i] = "frame"]
                   /\ video_clips' = Append(video_clips, i)
        /\ pc' = IF i = nimages THEN "write" ELSE "loop"
    /\ UNCHANGED <<prog, nimages, is_shorts, time_per_image, audio_file,
                   total_duration, rejected, outcome, encoded, out_video,
                   out_with_audio, frameVars>>

\* Lines 58-71: concatenate_videoclips (which raises on an empty list and
\* ends the thread), the audio subclip, write_videofile.
SaveVideo ==
    /\ prog = "YT"
    /\ pc = "write"
    /\ IF video_clips = <<>>
       THEN /\ outcome' = "error"
            /\ UNCHANGED <<encoded, out_video>>
       ELSE LET d == ConcatDuration(video_clips, time_per_image)
            IN  /\ outcome' = "saved"
                /\ encoded' = encoded \cup {"video"}
                /\ out_video' = MediaFile(d, IF audio_file # 0
                                             THEN subclip(0, d) ELSE 0)
    /\ pc' = "idle"
    /\ UNCHANGED <<prog, nimages, is_shorts, time_per_image, audio_file, fut,
                   decoded, video_clips, total_duration, rejected,
                   out_with_audio, frameVars>>

Next ==
    \/ CreateVideo
    \/ \E i \in 1..MaxImages + 1 : WorkerFinish(i)
    \/ \E i \in 1..MaxImages + 1 : AsCompleted(i)
    \/ WriteVideo
    \/ add_audio_to_video
    \/ StartVideoGeneration
    \/ ProcessNext
    \/ SaveVideo

Spec == Init /\ [][Next]_vars

\* ---------------------------------------------------- process_image alone
\* Side lengths of the source images: tiny ones, common photo sizes, and
\* sides just past the canvas.
SourceSides == (1..MaxSmallSide) \cup {11, 600, 800, NarrowSide, WideSide,
                                        WideSide + 1, 4000}

InitFrame ==
    /\ prog = "001"
    /\ pc = "idle"
    /\ nimages = 0
    /\ is_shorts = FALSE
    /\ time_per_image = DefaultTimePerImage
    /\ audio_file = 0
    /\ fut = <<>>
    /\ decoded = <<>>
    /\ video_clips = <<>>
    /\ total_duration = 0
    /\ rejected = 0
    /\ outcome = "none"
    /\ encoded = {}
    /\ out_video = NoFile
    /\ out_with_audio = NoFile
    /\ \E w \in SourceSides, h \in SourceSides, s \in BOOLEAN :
          frame_src = <<w, h, VideoSize(s)[1], VideoSize(s)[2]>>
    /\ frame_called = FALSE
    /\ frame_ret = None

\* process_image(image_path, video_width, video_height) on a readable file.
ComposeFrame ==
    /\ ~frame_called
    /\ frame_ret' \in process_image(Image(frame_src[1], frame_src[2]),
                                    frame_src[3], frame_src[4])
    /\ frame_called' = TRUE
    /\ UNCHANGED <<pipeVars, frame_src>>

\* The next image of the folder is handed to process_image.
NextImage ==
    /\ frame_called
    /\ \E w \in SourceSides, h \in SourceSides, s \in BOOLEAN :
          frame_src' = <<w, h, VideoSize(s)[1], VideoSize(s)[2]>>
    /\ frame_called' = FALSE
    /\ frame_ret' = None
    /\ UNCHANGED pipeVars

FrameNext == ComposeFrame \/ NextImage

SpecFrame == InitFrame /\ [][FrameNext]_vars

\* ------------------------------------------------------------- properties
\* Images of the current job whose process_image returned a frame / None.
Decoded == {i \in Images : decoded[i] = "frame"}
Failed == {i \in Images : decoded[i] = "none"}

\* The decoded images in input order.
DecodedSeq == SelectSeq([i \in 1..nimages |-> i], LAMBDA i : decoded[i] = "frame")

\* generate_video has returned (or raised) in the current job.
JobEnded == outcome \in {"saved", "empty", "error"}

\* Duration of the timeline built so far.
TimelineDuration == ConcatDuration(video_clips, time_per_image)

\* The file the job binds its audio into.
AudioOutput == IF prog = "001" THEN out_with_audio ELSE out_video

\* C1: the clips handed to concatenation are in input order, without
\* repetition, and are clips of decoded images, whatever order the
\* process_image tasks completed in.
C1_OrderPreserved ==
    /\ \A p, q \in 1..Len(video_clips) :
          p < q => video_clips[p] < video_clips[q]
    /\ \A p \in 1..Len(video_clips) : video_clips[p] \in Decoded

\* C2: in Shorts mode the timeline never exceeds 60 seconds, the last
\* accepted clip ends at or before 60 s, and a rejected clip is one whose
\* addition would have exceeded 60 s.
C2_ShortsCapped ==
    is_shorts =>
        /\ TimelineDuration <= max_duration
        /\ rejected # 0 => TimelineDuration + time_per_image > max_duration

\* C3: in Regular mode no cap applies: once generate_video has ended the
\* timeline has one clip per decoded image and lasts that many times
\* time_per_image.
C3_RegularUncapped ==
    (~is_shorts /\ JobEnded) =>
        /\ Len(video_clips) = Cardinality(Decoded)
        /\ TimelineDuration = Cardinality(Decoded) * time_per_image

\* C4: in Shorts mode the clips kept are exactly the longest prefix, in
\* input order, of the decoded images whose cumulative duration is at most
\* 60 seconds.
C4_LongestPrefixKept ==
    (is_shorts /\ JobEnded) =>
        LET fit == max_duration \div time_per_image
            k   == IF Len(DecodedSeq) <= fit THEN Len(DecodedSeq) ELSE fit
        IN  video_clips = SubSeq(DecodedSeq, 1, k)

\* C5: when k < N of the N images fail to decode, generate_video skips them,
\* reaches the encoder and saves a timeline of exactly N - k clips, or of
\* fewer only where the duration cap stopped the appending.
C5_DecodeFailuresTolerated ==
    (JobEnded /\ Cardinality(Failed) < nimages) =>
        /\ outcome = "saved"
        /\ "video" \in encoded
        /\ out_video = MediaFile(TimelineDuration, out_video.audio)
        /\ \/ Len(video_clips) = nimages - Cardinality(Failed)
           \/ /\ Len(video_clips) < nimages - Cardinality(Failed)
              /\ rejected # 0
              /\ ~CapAllows(total_duration, time_per_image)

\* Witness of C5: a saved job in which one image failed and two were kept.
C5_Witness ==
    /\ JobEnded
    /\ outcome = "saved"
    /\ Cardinality(Failed) = 1
    /\ nimages = 3
    /\ Len(video_clips) = 2
    /\ "video" \in encoded

\* C6: when every image of the job fails to decode, the job ends in a
\* failure and no step of it, the audio step included, invokes the encoder
\* or produces a file.
C6_AllFailedNoOutput ==
    (nimages >= 1 /\ Failed = Images) =>
        /\ outcome \in {"none", "empty", "error"}
        /\ encoded = {}

\* C7: every clip built from a duration the front-ends can supply (5 s in
\* 001, the 1..10 s slider in YT-Creator) has fadeIn + fadeOut <= duration.
C7_FadesFitClip ==
    (/\ video_clips # <<>>
     /\ prog = "001" => time_per_image = DefaultTimePerImage
     /\ prog = "YT" => time_per_image \in SliderMin..SliderMax)
    => fade_duration + fade_duration <= time_per_image

\* C8: for every source size and target, process_image returns a canvas of
\* exactly the target size, with the scaled foreground no larger than the
\* canvas, one side filling it (up to truncation), pasted at non-negative
\* offsets inside the canvas.
C8_FrameGeometry ==
    frame_called =>
        /\ ~frame_ret.none
        /\ frame_ret.width = frame_src[3]
        /\ frame_ret.height = frame_src[4]
        /\ frame_ret.new_width <= frame_src[3]
        /\ frame_ret.new_height <= frame_src[4]
        /\ \/ frame_ret.new_width >= frame_src[3] - 1
           \/ frame_ret.new_height >= frame_src[4] - 1
        /\ frame_ret.x_offset >= 0
        /\ frame_ret.y_offset >= 0
        /\ frame_ret.x_offset + frame_ret.new_width <= frame_src[3]
        /\ frame_ret.y_offset + frame_ret.new_height <= frame_src[4]

\* C9: when the job has saved its video and the audio track is longer than
\* the timeline's duration D, the audio bound to the output lasts exactly D.
C9_AudioTrimmed ==
    (pc = "idle" /\ outcome = "saved" /\ audio_file > TimelineDuration) =>
        /\ AudioOutput.exists
        /\ AudioOutput.duration = TimelineDuration
        /\ AudioOutput.audio = TimelineDuration

\* Witness of C9: a long track bound to a timeline that lost an image to a
\* decode failure.
C9_Witness ==
    /\ pc = "idle"
    /\ outcome = "saved"
    /\ audio_file = LongAudio
    /\ Failed # {}
    /\ Len(video_clips) >= 2
    /\ AudioOutput.audio = TimelineDuration
    /\ AudioOutput.audio < audio_file

====
